---- MODULE Spec2Model ----
(***************************************************************************)
(* Model of the budget_tracing example: the helpers of examples/tracing.py *)
(* (get_langfuse_client, create_trace, add_generation, add_span) and the   *)
(* categorisation pipeline of examples/categorization_example.py          *)
(* (TransactionCategorizer, main).                                         *)
(*                                                                         *)
(* Collaborators that are not part of the repository:                      *)
(*  - the Langfuse client: a trace is an object holding an ordered list of *)
(*    observations and an output slot; trace.span / trace.generation       *)
(*    append, trace.update(output=..) assigns. These calls do not raise.   *)
(*  - the Ollama backend behind requests.post: every outcome the requests  *)
(*    library can produce is an input chosen at the call.                  *)
(* Transactions hold values of their declared field types. Wall-clock      *)
(* values (session id suffix, processing_time_ms) are not modelled.        *)
(***************************************************************************)
EXTENDS Integers, Sequences, FiniteSets, TLC

VARIABLES
    env,           \* os.getenv view of the two project keys
    langfuse,      \* the Langfuse client (None until created)
    traces,        \* every trace object created so far, by handle 1..Len
    pc,            \* position of main / categorize_batch / categorize_transaction
    transactions,  \* the list given to categorize_batch
    i,             \* categorize_batch: index of the transaction in the loop
    results,       \* categorize_batch: results
    trace,         \* categorize_transaction: handle of its trace (0: none)
    prompt,        \* categorize_transaction: prompt
    category,      \* categorize_transaction: category
    exc,           \* the exception in flight (type "" when none)
    ret,           \* how the last categorize_transaction call ended
    backend        \* log of the backend outcome of each requests.post

vars == <<env, langfuse, traces, pc, transactions, i, results, trace, prompt,
          category, exc, ret, backend>>

---------------------------------------------------------------------------
(* Bounds of the model *)

MaxBatch == 2      \* longest list given to categorize_batch
MaxRespLen == 2    \* longest "response" text of the backend, in characters
MaxTokens == 1     \* largest token counter the backend reports
MaxApiCalls == 3   \* helper calls a direct client of tracing.py makes

---------------------------------------------------------------------------
(* Python values *)

None == [some |-> FALSE]
Some(v) == [some |-> TRUE, val |-> v]
EmptyDict == [k \in {} |-> 0]

\* `x or ""` for an Optional[str]
OrStr(x) == IF x.some /\ x.val # "" THEN x.val ELSE ""
\* `x or {}` for an Optional[dict]
OrDict(x) == IF x.some /\ DOMAIN x.val # {} THEN x.val ELSE EmptyDict
\* truth value of an Optional[str]: None and "" are false
Truthy(x) == x.some /\ x.val # ""

\* str.strip() on a text given as its sequence of characters
IsSpace(c) == c = " "
RECURSIVE LStrip(_)
LStrip(cs) == IF cs # <<>> /\ IsSpace(Head(cs)) THEN LStrip(Tail(cs)) ELSE cs
RECURSIVE RStrip(_)
RStrip(cs) ==
    IF cs # <<>> /\ IsSpace(cs[Len(cs)]) THEN RStrip(SubSeq(cs, 1, Len(cs) - 1)) ELSE cs
Strip(cs) == RStrip(LStrip(cs))
\* the characters as one string
RECURSIVE Join(_)
Join(cs) == IF cs = <<>> THEN "" ELSE Head(cs) \o Join(Tail(cs))

\* format(amount, ".2f") and str(amount) of a float held as a number of cents
TwoDigits(n) == IF n < 10 THEN "0" \o ToString(n) ELSE ToString(n)
Format2f(cents) == ToString(cents \div 100) \o "." \o TwoDigits(cents % 100)
FormatFloat(cents) ==
    ToString(cents \div 100) \o "." \o
        (IF cents % 10 = 0 THEN ToString((cents % 100) \div 10) ELSE TwoDigits(cents % 100))

---------------------------------------------------------------------------
(* examples/tracing.py *)

PROJECT_NAME == "budget_claude"
OLLAMA_MODEL == "llama3.1:8b"
OLLAMA_API_URL == "http://localhost:11434"
LangfuseHost == "http://localhost:3001"

\* variant: tests the keys against None only (`is None`), so an empty key passes
KeysAreNone(public_key, secret_key) == ~public_key.some \/ ~secret_key.some

\* get_langfuse_client: the condition under which it raises ValueError
KeysMissing(public_key, secret_key) == ~Truthy(public_key) \/ ~Truthy(secret_key)

get_langfuse_client(e) ==
    IF KeysMissing(e.public_key, e.secret_key)
    THEN [ok |-> FALSE, exc |-> "ValueError"]
    ELSE [ok |-> TRUE,
          client |-> [public_key |-> e.public_key.val,
                      secret_key |-> e.secret_key.val,
                      host |-> LangfuseHost]]

\* number of observations recorded so far on all traces: the next call's serial
RECURSIVE CountObs(_)
CountObs(heap) ==
    IF heap = <<>> THEN 0 ELSE Len(Head(heap).observations) + CountObs(Tail(heap))

\* langfuse.trace(...): a new trace object with an identity of its own
NewTrace(heap, name, user_id, session_id, metadata) ==
    [id |-> Len(heap) + 1, name |-> name, user_id |-> user_id,
     session_id |-> session_id, metadata |-> metadata,
     observations |-> <<>>, output |-> None, updates |-> 0]

\* create_trace: the heap with the new trace; its handle is Len of the result
create_trace(heap, name, user_id, session_id, metadata) ==
    Append(heap, NewTrace(heap, name, user_id, session_id, OrDict(metadata)))

\* variant: the new observation is put in front of the older ones
RecordFirst(heap, h, obs) ==
    [heap EXCEPT ![h].observations =
        <<obs @@ [call |-> CountObs(heap) + 1]>> \o @]

\* trace.span(...) / trace.generation(...): append to that trace's observations
Record(heap, h, obs) ==
    [heap EXCEPT ![h].observations =
        Append(@, obs @@ [call |-> CountObs(heap) + 1])]

add_generation(heap, h, name, model, input_, output, usage, metadata) ==
    Record(heap, h,
        [type |-> "generation", name |-> name, model |-> model, input |-> input_,
         output |-> output, usage |-> OrDict(usage), metadata |-> OrDict(metadata)])

add_span(heap, h, name, input_, output, metadata) ==
    Record(heap, h,
        [type |-> "span", name |-> name, input |-> OrStr(input_),
         output |-> OrStr(output), metadata |-> OrDict(metadata)])

\* trace.update(output=...)
TraceUpdate(heap, h, output) ==
    [heap EXCEPT ![h].output = Some(output), ![h].updates = @ + 1]

---------------------------------------------------------------------------
(* The Ollama backend as requests.post sees it *)

Chars == {" ", "F"}
Texts == UNION {[1..n -> Chars] : n \in 0..MaxRespLen}

\* a field of the JSON object: absent, null, a string or an integer
Absent == [t |-> "absent"]
JsonNull == [t |-> "null"]
JsonStr(cs) == [t |-> "str", v |-> cs]
JsonInt(n) == [t |-> "int", v |-> n]

ResponseFields == {Absent, JsonNull} \cup {JsonStr(cs) : cs \in Texts}
CounterFields == {Absent} \cup {JsonInt(n) : n \in 0..MaxTokens}

JsonObject(r, p, c) ==
    [json |-> "object", response |-> r, prompt_eval_count |-> p, eval_count |-> c]

\* bodies: not JSON at all, JSON that is no object, and objects; the objects vary
\* the response text with both counters reported, and the counters with a fixed text
Bodies ==
    {[json |-> "invalid"], [json |-> "array"]}
    \cup {JsonObject(r, JsonInt(MaxTokens), JsonInt(0)) : r \in ResponseFields}
    \cup {JsonObject(JsonStr(<<"F">>), p, c) : p \in CounterFields, c \in CounterFields}

HttpResponse(status, body) == [kind |-> "response", status |-> status, body |-> body]
RequestsError(x) == [kind |-> "exc", exc |-> x]

\* what requests.post(.., timeout=30) can do: raise, or return a response
Outcomes ==
    {RequestsError(x) : x \in {"ConnectionError", "ConnectTimeout", "ReadTimeout"}}
    \cup {HttpResponse(200, b) : b \in Bodies}
    \cup {HttpResponse(500, [json |-> "invalid"])}

\* requests.exceptions: the classes each exception is an instance of
Bases(x) ==
    CASE x = "ConnectionError" -> {"ConnectionError", "RequestException", "Exception"}
      [] x = "ConnectTimeout" ->
            {"ConnectTimeout", "ConnectionError", "Timeout", "RequestException", "Exception"}
      [] x = "ReadTimeout" -> {"ReadTimeout", "Timeout", "RequestException", "Exception"}
      [] x = "HTTPError" -> {"HTTPError", "RequestException", "Exception"}
      [] x = "JSONDecodeError" -> {"JSONDecodeError", "RequestException", "Exception"}
      [] OTHER -> {x, "Exception"}
IsInstance(x, cls) == cls \in Bases(x)

\* dict.get(key, default) on a field of the parsed object
DictGet(field, default) == IF field.t = "absent" THEN default ELSE field

---------------------------------------------------------------------------
(* examples/categorization_example.py *)

Confidence == 95   \* confidence = 0.95, in hundredths

\* sample_transactions of main, amounts in cents
Transaction(id, description, amount, date) ==
    [id |-> id, description |-> description, amount |-> amount, date |-> date]
sample_transactions ==
    << Transaction("txn_001", "Starbucks Coffee", 550, "2024-01-15"),
       Transaction("txn_002", "Uber to Airport", 4200, "2024-01-15"),
       Transaction("txn_003", "Whole Foods Groceries", 8750, "2024-01-15"),
       Transaction("txn_004", "Movie Tickets", 2800, "2024-01-15"),
       Transaction("txn_005", "CVS Pharmacy", 1530, "2024-01-15") >>

create_prompt(t) ==
    "Categorize the following financial transaction into ONE of these categories: "
    \o "Food & Dining, Transportation, Shopping, Bills & Utilities, Healthcare, "
    \o "Entertainment, Other. Transaction Description: " \o t.description
    \o " Amount: $" \o Format2f(t.amount)
    \o " Respond with ONLY the category name, nothing else."

\* the exception the try block of _call_ollama raises on outcome o ("none": it returns)
TryRaises(o) ==
    IF o.kind = "exc" THEN o.exc
    ELSE IF o.status >= 400 THEN "HTTPError"
    ELSE IF o.body.json = "invalid" THEN "JSONDecodeError"
    ELSE IF o.body.json # "object" THEN "AttributeError"
    ELSE IF DictGet(o.body.response, JsonStr(<<>>)).t # "str" THEN "AttributeError"
    ELSE "none"

\* the except clauses of _call_ollama, in their order
call_ollama_except(x) ==
    IF IsInstance(x, "ConnectionError")
    THEN [type |-> "ConnectionError",
          msg |-> "Could not connect to Ollama at " \o OLLAMA_API_URL
                  \o ". Make sure Ollama is running and " \o OLLAMA_MODEL
                  \o " is loaded. Error: " \o x]
    ELSE IF IsInstance(x, "Timeout")
    THEN [type |-> "TimeoutError",
          msg |-> "Request to Ollama timed out. The model " \o OLLAMA_MODEL
                  \o " might be slow."]
    ELSE [type |-> "RuntimeError", msg |-> "Error calling Ollama: " \o x]

\* the usage mapping _call_ollama hands to add_generation
call_ollama_usage(body) ==
    [prompt_tokens |-> DictGet(body.prompt_eval_count, JsonInt(0)).v,
     completion_tokens |-> DictGet(body.eval_count, JsonInt(0)).v]

\* variant: an empty completion is not logged (`if category:` around add_generation)
call_ollama_skip_empty(heap, h, p, o) ==
    IF TryRaises(o) # "none"
    THEN [ok |-> FALSE, exc |-> call_ollama_except(TryRaises(o))]
    ELSE LET cat == Join(Strip(DictGet(o.body.response, JsonStr(<<>>)).v))
         IN [ok |-> TRUE, category |-> cat, confidence |-> Confidence,
             heap |-> IF cat = "" THEN heap
                      ELSE add_generation(heap, h, "ollama_categorization",
                               OLLAMA_MODEL, p, cat, Some(call_ollama_usage(o.body)),
                               Some([temperature |-> "0.3", top_p |-> "0.9",
                                     ollama_host |-> OLLAMA_API_URL]))]

\* _call_ollama on trace h with the backend behaving as o
call_ollama(heap, h, p, o) ==
    IF TryRaises(o) # "none"
    THEN [ok |-> FALSE, exc |-> call_ollama_except(TryRaises(o))]
    ELSE LET cat == Join(Strip(DictGet(o.body.response, JsonStr(<<>>)).v))
         IN [ok |-> TRUE, category |-> cat, confidence |-> Confidence,
             heap |-> add_generation(heap, h, "ollama_categorization", OLLAMA_MODEL,
                         p, cat, Some(call_ollama_usage(o.body)),
                         Some([temperature |-> "0.3", top_p |-> "0.9",
                               ollama_host |-> OLLAMA_API_URL]))]

NoExc == [type |-> "", msg |-> ""]
NoRet == [kind |-> "none"]

Init ==
    /\ env \in [public_key : {None, Some(""), Some("pk-lf")},
                secret_key : {None, Some(""), Some("sk-lf")}]
    /\ langfuse = None
    /\ traces = <<>>
    /\ pc = "main"
    /\ transactions \in {SubSeq(sample_transactions, 1, n) : n \in 0..MaxBatch}
    /\ i = 1
    /\ results = <<>>
    /\ trace = 0
    /\ prompt = ""
    /\ category = ""
    /\ exc = NoExc
    /\ ret = NoRet
    /\ backend = <<>>

\* main: TransactionCategorizer(PROJECT_NAME); on ValueError print and return
main ==
    /\ pc = "main"
    /\ LET r == get_langfuse_client(env)
       IN IF r.ok
          THEN /\ langfuse' = Some(r.client)
               /\ pc' = "batch"
          ELSE /\ langfuse' = langfuse
               /\ pc' = "exit"
    /\ UNCHANGED <<env, traces, transactions, i, results, trace, prompt, category,
                   exc, ret, backend>>

\* variant: one trace, opened for the first unit, is used by every unit
categorize_batch_next_shared ==
    /\ pc = "batch"
    /\ i <= Len(transactions)
    /\ LET t == transactions[i]
       IN traces' = IF traces = <<>>
                    THEN create_trace(traces, "categorize_transaction", "system",
                             PROJECT_NAME,
                             Some([transaction_id |-> t.id, amount |-> t.amount,
                                   date |-> t.date]))
                    ELSE traces
    /\ trace' = 1
    /\ pc' = "prepare"
    /\ UNCHANGED <<env, langfuse, transactions, i, results, prompt, category, exc,
                   ret, backend>>

\* categorize_batch: the loop takes the next transaction and categorize_transaction
\* opens its trace
categorize_batch_next ==
    /\ pc = "batch"
    /\ i <= Len(transactions)
    /\ LET t == transactions[i]
       IN traces' = create_trace(traces, "categorize_transaction", "system",
                        PROJECT_NAME,
                        Some([transaction_id |-> t.id, amount |-> t.amount,
                              date |-> t.date]))
    /\ trace' = Len(traces')
    /\ pc' = "prepare"
    /\ UNCHANGED <<env, langfuse, transactions, i, results, prompt, category, exc,
                   ret, backend>>

\* Step 1: the prepare_transaction_data span
prepare_transaction_data ==
    /\ pc = "prepare"
    /\ LET t == transactions[i]
       IN traces' = add_span(traces, trace, "prepare_transaction_data",
                        Some("ID: " \o t.id \o ", Desc: " \o t.description
                             \o ", Amount: " \o FormatFloat(t.amount)),
                        Some("Transaction data prepared"), Some([step |-> 1]))
    /\ pc' = "create_prompt"
    /\ UNCHANGED <<env, langfuse, transactions, i, results, trace, prompt, category,
                   exc, ret, backend>>

\* Step 2: the prompt and its span
create_prompt_span ==
    /\ pc = "create_prompt"
    /\ prompt' = create_prompt(transactions[i])
    /\ traces' = add_span(traces, trace, "create_prompt", None, Some(prompt'),
                     Some([step |-> 2, prompt_length |-> Len(prompt')]))
    /\ pc' = "call_ollama"
    /\ UNCHANGED <<env, langfuse, transactions, i, results, trace, category, exc,
                   ret, backend>>

\* Step 3: _call_ollama, the backend behaving as some outcome o
call_ollama_step ==
    /\ pc = "call_ollama"
    /\ \E o \in Outcomes :
        LET r == call_ollama(traces, trace, prompt, o)
        IN /\ backend' = Append(backend, o)
           /\ IF r.ok
              THEN /\ traces' = r.heap
                   /\ category' = r.category
                   /\ exc' = exc
                   /\ pc' = "validate"
              ELSE /\ traces' = traces
                   /\ category' = category
                   /\ exc' = r.exc
                   /\ pc' = "except"
    /\ UNCHANGED <<env, langfuse, transactions, i, results, trace, prompt, ret>>

\* Step 4: the validate_result span
validate_result ==
    /\ pc = "validate"
    /\ traces' = add_span(traces, trace, "validate_result",
                     Some("Category: " \o category \o ", Confidence: 0."
                          \o ToString(Confidence)),
                     Some("Validation passed"), Some([step |-> 4, valid |-> TRUE]))
    /\ pc' = "update"
    /\ UNCHANGED <<env, langfuse, transactions, i, results, trace, prompt, category,
                   exc, ret, backend>>

\* result = {...}; trace.update(output=result); return result
update_and_return ==
    /\ pc = "update"
    /\ LET t == transactions[i]
           result == [transaction_id |-> t.id, description |-> t.description,
                      amount |-> t.amount, category |-> category,
                      confidence |-> Confidence]
       IN /\ traces' = TraceUpdate(traces, trace, result)
          /\ ret' = [kind |-> "return", value |-> result]
    /\ pc' = "collect"
    /\ UNCHANGED <<env, langfuse, transactions, i, results, trace, prompt, category,
                   exc, backend>>

\* variant: the handler re-raises without recording the error span
categorize_transaction_except_unrecorded ==
    /\ pc = "except"
    /\ ret' = [kind |-> "raise", exc |-> exc]
    /\ pc' = "collect"
    /\ UNCHANGED <<env, langfuse, traces, transactions, i, results, trace, prompt,
                   category, exc, backend>>

\* variant: the handler also closes the trace, with the error as its output
categorize_transaction_except_updates ==
    /\ pc = "except"
    /\ traces' = TraceUpdate(
                    add_span(traces, trace, "error", Some(exc.type), Some(exc.msg),
                        Some([error |-> TRUE])),
                    trace, [error |-> exc.msg])
    /\ ret' = [kind |-> "raise", exc |-> exc]
    /\ pc' = "collect"
    /\ UNCHANGED <<env, langfuse, transactions, i, results, trace, prompt, category,
                   exc, backend>>

\* except Exception as e: the error span, then raise
categorize_transaction_except ==
    /\ pc = "except"
    /\ traces' = add_span(traces, trace, "error", Some(exc.type), Some(exc.msg),
                     Some([error |-> TRUE]))
    /\ ret' = [kind |-> "raise", exc |-> exc]
    /\ pc' = "collect"
    /\ UNCHANGED <<env, langfuse, transactions, i, results, trace, prompt, category,
                   exc, backend>>

\* variant: an exception of a unit leaves the loop (no per-unit except)
categorize_batch_collect_abort ==
    /\ pc = "collect"
    /\ IF ret.kind = "return"
       THEN /\ results' = Append(results, ret.value)
            /\ i' = i + 1
            /\ pc' = "batch"
       ELSE /\ results' = results
            /\ i' = i
            /\ pc' = "done"
    /\ trace' = 0
    /\ prompt' = ""
    /\ category' = ""
    /\ exc' = NoExc
    /\ ret' = NoRet
    /\ UNCHANGED <<env, langfuse, traces, transactions, backend>>

\* categorize_batch: append the result, or on an exception the error entry
categorize_batch_collect ==
    /\ pc = "collect"
    /\ LET t == transactions[i]
       IN results' =
            IF ret.kind = "return"
            THEN Append(results, ret.value)
            ELSE Append(results, [transaction_id |-> t.id,
                                  description |-> t.description,
                                  amount |-> t.amount, error |-> ret.exc.msg])
    /\ i' = i + 1
    /\ trace' = 0
    /\ prompt' = ""
    /\ category' = ""
    /\ exc' = NoExc
    /\ ret' = NoRet
    /\ pc' = "batch"
    /\ UNCHANGED <<env, langfuse, traces, transactions, backend>>

\* categorize_batch: return results
categorize_batch_return ==
    /\ pc = "batch"
    /\ i > Len(transactions)
    /\ pc' = "done"
    /\ UNCHANGED <<env, langfuse, traces, transactions, i, results, trace, prompt,
                   category, exc, ret, backend>>

Next ==
    \/ main
    \/ categorize_batch_next
    \/ prepare_transaction_data
    \/ create_prompt_span
    \/ call_ollama_step
    \/ validate_result
    \/ update_and_return
    \/ categorize_transaction_except
    \/ categorize_batch_collect
    \/ categorize_batch_return

Spec == Init /\ [][Next]_vars

---------------------------------------------------------------------------
(* A direct client of examples/tracing.py: it creates the client, opens traces *)
(* and records observations through the helpers, with and without the         *)
(* optional arguments.                                                        *)

ApiCalls == Len(traces) + CountObs(traces)

api_get_langfuse_client ==
    /\ ~langfuse.some
    /\ get_langfuse_client(env).ok
    /\ langfuse' = Some(get_langfuse_client(env).client)
    /\ UNCHANGED <<env, traces, pc, transactions, i, results, trace, prompt,
                   category, exc, ret, backend>>

api_create_trace ==
    /\ langfuse.some
    /\ ApiCalls < MaxApiCalls
    /\ \E metadata \in {None, Some([source |-> "api"])} :
        traces' = create_trace(traces, "unit", "user_123", "P_123", metadata)
    /\ UNCHANGED <<env, langfuse, pc, transactions, i, results, trace, prompt,
                   category, exc, ret, backend>>

api_add_span ==
    /\ ApiCalls < MaxApiCalls
    /\ \E h \in 1..Len(traces), input_ \in {None, Some("x")},
          output \in {None, Some(""), Some("ready")} :
        traces' = add_span(traces, h, "prepare", input_, output, None)
    /\ UNCHANGED <<env, langfuse, pc, transactions, i, results, trace, prompt,
                   category, exc, ret, backend>>

api_add_generation ==
    /\ ApiCalls < MaxApiCalls
    /\ \E h \in 1..Len(traces), output \in {"", "y"},
          usage \in {None, Some([prompt_tokens |-> 5, completion_tokens |-> 1])} :
        traces' = add_generation(traces, h, "infer", "m", "x", output, usage, None)
    /\ UNCHANGED <<env, langfuse, pc, transactions, i, results, trace, prompt,
                   category, exc, ret, backend>>

NextAPI ==
    \/ api_get_langfuse_client
    \/ api_create_trace
    \/ api_add_span
    \/ api_add_generation

SpecAPI == Init /\ [][NextAPI]_vars

---------------------------------------------------------------------------
(* Vocabulary of the properties *)

Units == 1..Len(traces)
Obs(k) == traces[k].observations
Names(k) == [j \in 1..Len(Obs(k)) |-> Obs(k)[j].name]
Types(k) == [j \in 1..Len(Obs(k)) |-> Obs(k)[j].type]
ErrorSpans(k) == {j \in 1..Len(Obs(k)) : Obs(k)[j].type = "span" /\ Obs(k)[j].name = "error"}
Generations(k) == {j \in 1..Len(Obs(k)) : Obs(k)[j].type = "generation"}
LastObs(k) == Obs(k)[Len(Obs(k))]

\* categorize_transaction has ended for unit k (it returned or raised)
Ended(k) == k < i \/ (k = i /\ pc = "collect")
\* the model call of unit k was made, and what the backend did
Called(k) == k <= Len(backend)
TimedOut(o) == o.kind = "exc" /\ o.exc \in {"ConnectTimeout", "ReadTimeout"}
Unreachable(o) == o.kind = "exc" /\ o.exc = "ConnectionError"
\* an HTTP success whose body is a JSON object with a textual (or no) response
Parseable(o) ==
    /\ o.kind = "response"
    /\ o.status = 200
    /\ o.body.json = "object"
    /\ o.body.response.t \in {"absent", "str"}
\* unit k failed: its model call did not yield a usable response
Failed(k) == Called(k) /\ ~Parseable(backend[k])
Succeeded(k) == Called(k) /\ Parseable(backend[k])

IsPrefixOfFour(names) ==
    /\ Len(names) <= 4
    /\ \A j \in 1..Len(names) :
          names[j] = <<"prepare_transaction_data", "create_prompt",
                       "ollama_categorization", "validate_result">>[j]

FourSteps == <<"prepare_transaction_data", "create_prompt", "ollama_categorization",
               "validate_result">>

---------------------------------------------------------------------------
(* Properties *)

C2_FourObservationsInCallOrder ==
    \A k \in Units :
        /\ traces[k].output.some =>
              /\ Names(k) = FourSteps
              /\ Types(k) = <<"span", "span", "generation", "span">>
        /\ (Ended(k) /\ Succeeded(k)) => traces[k].output.some
        /\ \A a, b \in 1..Len(Obs(k)) : a < b => Obs(k)[a].call < Obs(k)[b].call
        /\ IsPrefixOfFour(Names(k)) \/ ErrorSpans(k) # {}

\* C2 witness: a unit has completed and its output is set.
C2_Witness ==
    \E k \in Units : Ended(k) /\ Succeeded(k) /\ traces[k].output.some

\* C3: trace.update(output=..) has run at most once on every trace: exactly once
\* on the trace of a unit that ended successfully, never on the trace of a unit
\* that failed; no trace has both an output and an error span, and the trace of
\* an ended unit has one of the two.
C3_OutputAtMostOnce ==
    \A k \in Units :
        /\ traces[k].updates <= 1
        /\ traces[k].output.some <=> traces[k].updates = 1
        /\ (Ended(k) /\ Succeeded(k)) => traces[k].updates = 1
        /\ Failed(k) => traces[k].updates = 0
        /\ ~(traces[k].output.some /\ ErrorSpans(k) # {})
        /\ Ended(k) => (traces[k].output.some \/ Len(Obs(k)) \in ErrorSpans(k))

\* C3 witness: the batch is over, one unit ended with its output set and another
\* with an error span and no output.
C3_Witness ==
    /\ pc = "done"
    /\ \E a, b \in Units :
        /\ traces[a].updates = 1
        /\ traces[b].updates = 0 /\ ErrorSpans(b) # {}

\* C4: categorize_batch returns one entry per transaction, in the order of the
\* input; the entry of a failed unit has an "error" field and no category, the
\* entry of a successful unit has a category and no "error" field; every
\* transaction, also one after a failed unit, had its trace opened and its model
\* call made. While the loop runs, the results are the entries of the units done.
C4_BatchNeverAborts ==
    /\ pc \in {"batch", "prepare", "create_prompt", "call_ollama", "validate",
               "update", "except", "collect"} => Len(results) = i - 1
    /\ pc = "done" =>
          /\ Len(results) = Len(transactions)
          /\ Len(backend) = Len(transactions)
          /\ Len(traces) = Len(transactions)
    /\ \A k \in 1..Len(results) :
          /\ results[k].transaction_id = transactions[k].id
          /\ results[k].description = transactions[k].description
          /\ Failed(k) <=> "error" \in DOMAIN results[k]
          /\ Succeeded(k) <=> "category" \in DOMAIN results[k]
          /\ ~("error" \in DOMAIN results[k] /\ "category" \in DOMAIN results[k])

\* C4 witness: categorize_batch has returned, its first unit failed and the
\* unit after it was processed and succeeded.
C4_Witness ==
    /\ pc = "done"
    /\ Len(results) >= 2
    /\ "error" \in DOMAIN results[1]
    /\ "category" \in DOMAIN results[2]

\* C5: when the public or the secret key is None or empty, main ends on the
\* ValueError of get_langfuse_client: no client exists, no trace was opened and
\* no request went to the backend; with both keys set it does not end there.
C5_MissingKeysFailFast ==
    LET missing == \/ env.public_key \in {None, Some("")}
                   \/ env.secret_key \in {None, Some("")}
    IN /\ (missing /\ pc # "main") =>
              /\ pc = "exit"
              /\ ~langfuse.some
              /\ traces = <<>>
              /\ backend = <<>>
       /\ pc = "exit" => missing

\* C5 witness: main has ended on the configuration error with the public key set
\* and the secret key empty.
C5_Witness ==
    /\ pc = "exit"
    /\ env.public_key = Some("pk-lf")
    /\ env.secret_key = Some("")

\* C6: the error span of a unit whose model call failed names the kind of the
\* failure: ConnectionError when the backend was unreachable, TimeoutError when
\* the request ran into its timeout, while connecting or while waiting for the
\* response, RuntimeError for every other failure.
C6_ThreeKinds ==
    \A k \in Units :
        (Ended(k) /\ Failed(k) /\ ErrorSpans(k) # {}) =>
            LastObs(k).input =
                IF Unreachable(backend[k]) THEN "ConnectionError"
                ELSE IF TimedOut(backend[k]) THEN "TimeoutError"
                ELSE "RuntimeError"

\* C6, the part the code keeps: a refused connection is a ConnectionError, a
\* timeout while waiting for the response a TimeoutError with the "timed out"
\* message, any other failure but the connect timeout a RuntimeError.
C6_KindsButConnectTimeout ==
    \A k \in Units :
        (Ended(k) /\ Failed(k) /\ backend[k] # RequestsError("ConnectTimeout")) =>
            /\ LastObs(k).input =
                  IF Unreachable(backend[k]) THEN "ConnectionError"
                  ELSE IF TimedOut(backend[k]) THEN "TimeoutError"
                  ELSE "RuntimeError"
            /\ TimedOut(backend[k]) =>
                  LastObs(k).output = "Request to Ollama timed out. The model "
                                      \o OLLAMA_MODEL \o " might be slow."

\* C7: when the model returns an empty category, the validate_result span of the
\* unit records that the validation failed, and the unit still completes: its
\* output is set and a result is returned.
C7_EmptyCategoryRecordedAsInvalid ==
    \A k \in Units :
        (Ended(k) /\ Succeeded(k) /\ traces[k].output.val.category = "") =>
            /\ \E j \in 1..Len(Obs(k)) :
                  /\ Obs(k)[j].name = "validate_result"
                  /\ Obs(k)[j].metadata.valid = FALSE
            /\ traces[k].output.some

\* C7, the part the code keeps: a unit with an empty category completes, with
\* its output set and a result entry that has a category and no error.
C7_EmptyCategoryNotFatal ==
    \A k \in Units :
        (Ended(k) /\ Succeeded(k) /\ traces[k].output.val.category = "") =>
            /\ traces[k].output.some
            /\ ErrorSpans(k) = {}
            /\ k < i => "category" \in DOMAIN results[k]

\* C8: every generation on a trace has a usage mapping with prompt_tokens and
\* completion_tokens, both non-negative integers, and each is zero when the
\* backend response has no such counter.
C8_UsageHasBothCounters ==
    \A k \in Units : \A j \in Generations(k) :
        LET u == Obs(k)[j].usage
        IN /\ {"prompt_tokens", "completion_tokens"} \subseteq DOMAIN u
           /\ u.prompt_tokens \in Nat
           /\ u.completion_tokens \in Nat
           /\ Called(k) =>
                 /\ backend[k].body.prompt_eval_count = Absent => u.prompt_tokens = 0
                 /\ backend[k].body.eval_count = Absent => u.completion_tokens = 0

\* C9: the traces have pairwise distinct identities; while a unit is processed
\* its trace is the one opened for it, carrying its transaction id; no recorded
\* call stands on two traces; and a step changes no trace but the one of the
\* unit in progress, a new unit getting a new trace.
C9_Inv ==
    /\ \A a, b \in Units : a # b => traces[a].id # traces[b].id
    /\ \A a, b \in Units : \A x \in 1..Len(Obs(a)) : \A y \in 1..Len(Obs(b)) :
          Obs(a)[x].call = Obs(b)[y].call => (a = b /\ x = y)
    /\ pc \in {"prepare", "create_prompt", "call_ollama", "validate", "update",
               "except", "collect"} => (trace = i /\ Len(traces) = i)
    /\ \A k \in Units :
          k <= Len(transactions) /\ traces[k].metadata.transaction_id = transactions[k].id
C9_Step ==
    /\ \A h \in Units : h # trace => (h <= Len(traces') /\ traces'[h] = traces[h])
    /\ (pc = "batch" /\ pc' = "prepare") =>
          (trace' = Len(traces) + 1 /\ Len(traces') = Len(traces) + 1)
C9_TracePerUnit == []C9_Inv /\ [][C9_Step]_vars

\* C9 witness: two units were processed, each trace holds observations, the
\* first ends with an error span.
C9_Witness ==
    /\ Len(traces) >= 2
    /\ ErrorSpans(1) # {}
    /\ Len(Obs(2)) >= 2

\* C10: a trace holds a generation exactly when the model call of its unit got
\* an HTTP success with a JSON object whose response is text or absent; it then
\* holds one, also when the completion is empty after stripping; the trace of a
\* unit whose model call failed holds the two preparatory spans and the error
\* span, and nothing else.
C10_GenerationIffResponse ==
    \A k \in Units :
        /\ Cardinality(Generations(k)) <= 1
        /\ ~Called(k) => Generations(k) = {}
        /\ Called(k) => (Generations(k) # {} <=> Parseable(backend[k]))
        /\ \A j \in Generations(k) :
              LET r == backend[k].body.response
              IN (r.t = "absent" \/ \A c \in 1..Len(r.v) : r.v[c] = " ")
                     <=> Obs(k)[j].output = ""
        /\ (Ended(k) /\ Failed(k)) =>
              Names(k) = <<"prepare_transaction_data", "create_prompt", "error">>

\* C10 witness: the backend answered with blanks only, and the generation with
\* the empty completion is on the trace.
C10_Witness ==
    \E k \in Units :
        /\ Called(k)
        /\ backend[k] = HttpResponse(200,
                            JsonObject(JsonStr(<<" ">>), JsonInt(MaxTokens), JsonInt(0)))
        /\ Generations(k) = {3}
        /\ Obs(k)[3].output = ""

====
